---- MODULE Spec2Model ----
(***************************************************************************)
(* Model of the PanelX backend's credit ledger                             *)
(* (src/api/routes/credits.py).                                            *)
(*                                                                         *)
(* The ledger keeps two JSON files, data/credits.json (uid -> account)     *)
(* and data/transactions.json (uid -> list of transactions).  Every        *)
(* handler reads a whole file into a local dict, changes the dict and      *)
(* writes the whole file back; there is no lock around the files.          *)
(*                                                                         *)
(* A request is served by a worker.  Each load_* / save_* call is one step *)
(* of the worker.  Under Spec one request is in flight at a time: this is  *)
(* the single event loop started by main_simple.py, in which a handler has *)
(* no suspension point.  Under SpecConc the steps of two workers sharing   *)
(* the data files (two server processes on one data directory) interleave, *)
(* and the clock stands still.                                             *)
(***************************************************************************)
EXTENDS Integers, Sequences, FiniteSets, TLC

\* ---------------------------------------------------------------- bounds
Users == {"u1", "u2"}
Workers == {"w1", "w2"}
EventLoop == {"w1"}
Amounts == {-1, 3, 1000, 1001}
ConcAmounts == {3, 995}
CreditAmounts == {500}
MaxReq == 3
MaxClock == 1
MaxFault == 1

\* ------------------------------------------------------------- constants
FREE_CREDITS_PER_USER == 1000

VARIABLES
    free_mode,      \* FREE_LAUNCH_MODE
    credits,        \* contents of data/credits.json: uid -> account
    transactions,   \* contents of data/transactions.json: uid -> list
    now,            \* datetime.now(), in clock ticks
    pc,             \* position of each worker in its handler
    req,            \* the request a worker is serving
    frame,          \* the handler's local variables
    resp,           \* the response a worker has produced
    pre,            \* files as they were when the request arrived
    nreq,           \* number of requests received so far
    disk,           \* whether the data files can be read and written now
    chat,           \* the chat service: its keys and the request it is serving
    profiles,       \* the profile store (users table or users.json) and its last request
    content         \* series.json, episodes.json, panels.json and their last request

vars == <<free_mode, credits, transactions, now, pc, req, frame, resp, pre, nreq,
          disk, chat, profiles, content>>

\* everything the chat service leaves alone
ledger == <<free_mode, credits, transactions, now, pc, req, frame, resp, pre, nreq,
            disk>>

\* ------------------------------------------------------ dicts and records
EmptyDict == [u \in {} |-> 0]

Put(d, k, v) == [x \in (DOMAIN d) \cup {k} |-> IF x = k THEN v ELSE d[x]]

NoTx == [id |-> -1, type |-> "none", amount |-> 0, description |-> "none",
         balance_after |-> 0, created_at |-> -1]

NoReq == [amount |-> 0, op |-> "none", uid |-> "none"]

NoResp == [transactions |-> <<>>, status |-> 0, kind |-> "none", balance |-> 0,
           have |-> 0, need |-> 0]

NoFrame == [credits |-> EmptyDict, transactions |-> EmptyDict,
            current_balance |-> 0, tx |-> NoTx, after |-> "none",
            result |-> NoResp]

NoPre == [credits |-> EmptyDict, transactions |-> EmptyDict]

\* faulty variant of NewAccount: the account starts without the grant
NewAccountEmpty(t) == [created_at |-> t, balance |-> 0, total_purchased |-> 0,
                       total_used |-> 0]

\* credits[req.uid] = {...} in init_user_credits
NewAccount(t) == [created_at |-> t, balance |-> FREE_CREDITS_PER_USER,
                  total_purchased |-> 0, total_used |-> 0]

\* the arguments init_user_credits passes to add_transaction
GrantTx == [NoTx EXCEPT !.type = "free", !.amount = FREE_CREDITS_PER_USER,
            !.description = "launch", !.balance_after = FREE_CREDITS_PER_USER]

\* faulty variant of AlreadyInitialized: an emptied account counts as new
AlreadyInitializedIfFunded(c, uid) == uid \in DOMAIN c /\ c[uid].balance > 0

\* if req.uid in credits (init_user_credits)
AlreadyInitialized(c, uid) == uid \in DOMAIN c

\* faulty variant of NeedsAutoInit: the mode is not looked at
NeedsAutoInitAnyMode(free, balance) == balance = 0

\* if FREE_LAUNCH_MODE and balance == 0 (get_user_balance)
NeedsAutoInit(free, balance) == free /\ balance = 0

\* faulty variant of Insufficient: only an empty account is refused
InsufficientOnlyWhenEmpty(current_balance, amount) == current_balance <= 0

\* if current_balance < req.amount (use_credits, paid mode)
Insufficient(current_balance, amount) == current_balance < amount

\* faulty variant of Deduct: total_used is not updated
DeductBalanceOnly(account, amount) == [account EXCEPT !.balance = @ - amount]

\* new_balance = current_balance - req.amount, and the two stores into
\* credits[req.uid] (use_credits, paid mode)
Deduct(account, amount) ==
    [account EXCEPT !.balance = @ - amount, !.total_used = @ + amount]

\* faulty variant of FreeUsageTx: balance_after is the reduced balance
FreeUsageTxDeducted(amount, current_balance) ==
    [NoTx EXCEPT !.type = "usage", !.amount = -amount,
                 !.description = "request_free",
                 !.balance_after = current_balance - amount]

\* the arguments use_credits passes to add_transaction in free mode
FreeUsageTx(amount, current_balance) ==
    [NoTx EXCEPT !.type = "usage", !.amount = -amount,
                 !.description = "request_free",
                 !.balance_after = current_balance]

\* faulty variant of PaidUsageTx: balance_after is the balance before the debit
PaidUsageTxBefore(amount, new_balance) ==
    [NoTx EXCEPT !.type = "usage", !.amount = -amount,
                 !.description = "request",
                 !.balance_after = new_balance + amount]

\* the arguments use_credits passes to add_transaction in paid mode
PaidUsageTx(amount, new_balance) ==
    [NoTx EXCEPT !.type = "usage", !.amount = -amount,
                 !.description = "request",
                 !.balance_after = new_balance]

\* faulty variant of AppendTx: the record is written twice
AppendTxTwice(list, rec) == Append(Append(list, rec), rec)

\* faulty variant of AppendTx: the record replaces the list
AppendTxAlone(list, rec) == <<rec>>

\* transactions[uid].append({...}) in add_transaction
AppendTx(list, rec) == Append(list, rec)

\* list.sort(key=created_at, reverse=True) is stable: x goes behind every
\* element that is as new as x or newer
RECURSIVE InsertNewestFirst(_, _)
InsertNewestFirst(sorted, x) ==
    IF sorted = <<>>
    THEN <<x>>
    ELSE IF Head(sorted).created_at >= x.created_at
         THEN <<Head(sorted)>> \o InsertNewestFirst(Tail(sorted), x)
         ELSE <<x>> \o sorted

RECURSIVE SortedNewestFirst(_)
SortedNewestFirst(list) ==
    IF list = <<>>
    THEN <<>>
    ELSE InsertNewestFirst(SortedNewestFirst(SubSeq(list, 1, Len(list) - 1)),
                           list[Len(list)])

\* faulty variant of SortNewestFirst: the list is returned as stored
SortOmitted(list) == list

\* user_transactions.sort(key=lambda x: x["created_at"], reverse=True)
SortNewestFirst(list) == SortedNewestFirst(list)

\* get_balance: credits.get(uid, {}).get("balance", 0)
get_balance(c, uid) == IF uid \in DOMAIN c THEN c[uid].balance ELSE 0

DiskOk == [state |-> "ok", faults |-> 0]

\* load_credits / load_transactions: the parsed file, or {} when open or
\* json.load raises (except: return {})
load_credits == IF disk.state = "unreadable" THEN EmptyDict ELSE credits
load_transactions == IF disk.state = "unreadable" THEN EmptyDict ELSE transactions

\* save_credits / save_transactions go through: open(..., "w") does not raise
CanSave == disk.state # "unwritable"

Ok(kind, balance) == [NoResp EXCEPT !.status = 200, !.kind = kind, !.balance = balance]

\* ------------------------------------------------------------- chat records
\* range(60) in call_replicate_api
MaxPolls == 60

\* len() of the string chat_with_groq returns when GROQ_API_KEY is not set
GroqUnavailableLen == 47

NoExc == [text |-> "none", verbatim |-> FALSE]
NoRet == [type |-> "none", text |-> "none", len |-> 0]
NoChatResp == [status |-> 0, text |-> "none", verbatim |-> FALSE, success |-> FALSE,
               flagged |-> FALSE]

\* texts a client can send, as sequences of characters
Texts == {<<"a">>, <<"n", "s">>, <<"N", "s">>, <<"a", "N", "S">>}

\* the moderation list; one keyword stands for the five of the source
HARMFUL_KEYWORDS == {<<"n", "s">>}

\* str.lower()
lower(text) ==
    [i \in 1..Len(text) |->
       CASE text[i] = "N" -> "n" [] text[i] = "S" -> "s" [] OTHER -> text[i]]

\* keyword in text
Contains(text, keyword) ==
    \E i \in 1..Len(text) :
      /\ i + Len(keyword) - 1 <= Len(text)
      /\ SubSeq(text, i, i + Len(keyword) - 1) = keyword

\* check_content_safety: is_safe
check_content_safety(text) ==
    \A keyword \in HARMFUL_KEYWORDS : ~Contains(lower(text), keyword)

\* f"{req.prompt}, {req.style}, highly detailed, professional comic art"
enhanced_prompt(prompt, style) == prompt \o <<",">> \o style \o <<",", "d">>

\* a Python str and a Python 2-tuple, as what iterating them yields
PyStr(text, n) == [type |-> "str", text |-> text, len |-> n]
PyPair(text) == [type |-> "tuple", text |-> text, len |-> 2]

\* a, b = v
CanUnpack(v) == v.len = 2

\* the module before import: os.getenv has not run
ChatUnloaded ==
    [pc |-> "unloaded", resp |-> NoChatResp, op |-> "none", style |-> <<>>,
     GROQ_API_KEY |-> FALSE, REPLICATE_API_KEY |-> FALSE,
     message |-> <<>>, image |-> FALSE, sent |-> <<>>,
     job |-> FALSE, polls |-> 0,
     last |-> "none", outcome |-> "none", output |-> "none",
     exc |-> NoExc, ret |-> NoRet]

\* the module between two requests: only the keys are kept
ChatIdle(c) ==
    [ChatUnloaded EXCEPT !.pc = "idle", !.GROQ_API_KEY = c.GROQ_API_KEY,
                         !.REPLICATE_API_KEY = c.REPLICATE_API_KEY]

\* the request is answered
ChatRespond(c, status, success, text, verbatim) ==
    [c EXCEPT !.pc = "done",
              !.resp = [status |-> status, text |-> text, verbatim |-> verbatim,
                        success |-> success, flagged |-> FALSE]]

\* raise Exception(text) inside generate_image's try
ChatRaise(c, text, verbatim) ==
    [c EXCEPT !.pc = "except", !.exc = [text |-> text, verbatim |-> verbatim]]

\* what the status endpoint can answer to one poll; "raise" is requests.get
\* or .json() raising
PollAnswers == {"starting", "processing", "canceled", "succeeded", "failed", "raise"}

\* what one poll makes of its answer; "none" goes round the loop again
PollOutcomeIgnoresFailed(status) ==
    CASE status = "succeeded" -> "output"
      [] status = "raise" -> "raised"
      [] OTHER -> "none"
PollOutcome(status) ==
    CASE status = "succeeded" -> "output"
      [] status = "failed" -> "failed"
      [] status = "raise" -> "raised"
      [] OTHER -> "none"

\* ---------------------------------------------------------- profile records
\* what a client can send as username: nothing, or a name
Names == {<<"ann">>, <<"bob">>}
NoName == <<>>

\* e-mail addresses, as <<local part, domain>>
Emails == {<<"ann", "x">>, <<"ann", "y">>, <<"bob", "x">>}

NoLast == [op |-> "none", uid |-> "none", status |-> 0, username |-> NoName]

\* api.routes.users before import: DATABASE_URL has not been read
ProfilesUnloaded ==
    [pc |-> "unloaded", last |-> NoLast, USE_DB |-> FALSE, users |-> EmptyDict,
     before |-> EmptyDict]

\* profile.email.split("@")[0] when no username is sent
DefaultUsername(username, email) == IF username = NoName THEN <<email[1]>> ELSE username

\* SELECT uid FROM users WHERE username = :username
UsernameTaken(users, username) ==
    \E v \in DOMAIN users : users[v].username = username

\* SELECT uid FROM users WHERE username = :username AND uid != :uid
UsernameTakenByOther(users, username, uid) ==
    \E v \in DOMAIN users : v # uid /\ users[v].username = username

\* f"{profile.username}_{profile.uid[:4]}"
Suffixed(username, uid) == username \o <<"_", uid>>

\* the users table refuses the row: uid PRIMARY KEY, email UNIQUE,
\* username UNIQUE
InsertRefused(users, uid, row) ==
    \/ uid \in DOMAIN users
    \/ \E v \in DOMAIN users :
         users[v].email = row.email \/ users[v].username = row.username

\* the request is answered: the store as it was, the store as it is, the request
ProfilesAnswer(users, op, uid, username, status) ==
    [profiles EXCEPT !.before = profiles.users, !.users = users,
                     !.last = [op |-> op, uid |-> uid, status |-> status,
                               username |-> username]]

\* ---------------------------------------------------------- content records
SeriesIds == {"s1", "s2"}
EpisodeIds == {"e1", "e2"}
PanelIds == {"p1", "p2", "p3"}
ClientPanelIds == {"p1"}
MaxViews == 2
MaxPanels == 2

\* req.episode_number: 0 stands for a missing number (None and 0 are both falsy)
EpisodeNumbers == {0, 1, 2}

\* panel["image_url"]: "" is falsy
Images == {"", "a"}

\* panel["id"] when the client sends none
NoId == ""

NoContentLast == [id |-> "none", op |-> "none", status |-> 0, panels |-> <<>>]

\* the files as the module creates them: {} each
ContentEmpty ==
    [last |-> NoContentLast, panels |-> EmptyDict,
     series |-> EmptyDict, episodes |-> EmptyDict]

\* the request is answered
ContentAnswer(c, op, id, status, panels) ==
    [c EXCEPT !.last = [id |-> id, op |-> op, status |-> status, panels |-> panels]]

\* [e for e in episodes.values() if e.get("series_id") == series_id]
EpisodesOf(episodes, series_id) ==
    {e \in DOMAIN episodes : episodes[e].series_id = series_id}

\* the published episodes of a series, as get_series collects them (their
\* order in the list is not kept)
PublishedOf(episodes, series_id) ==
    {e \in EpisodesOf(episodes, series_id) : episodes[e].is_published}

\* ep_number = req.episode_number or (len(existing) + 1)
NextEpisodeNumber(episode_number, existing) ==
    IF episode_number # 0 THEN episode_number ELSE Cardinality(existing) + 1

\* {k: v for k, v in panels_data.items() if v.get("episode_id") != episode_id}
WithoutEpisode(panels_data, episode_id) ==
    [k \in {p \in DOMAIN panels_data : panels_data[p].episode_id # episode_id}
       |-> panels_data[k]]

\* panel_id = panel.get("id") or gen_id("panel")
PanelId(panel, generated) == IF panel.id # NoId THEN panel.id ELSE generated

\* for i, panel in enumerate(req.panels): panels_data[panel_id] = {...};
\* generated[i] is what gen_id returns in turn i
RECURSIVE StorePanels(_, _, _, _, _)
StorePanels(panels_data, episode_id, panels, generated, i) ==
    IF i > Len(panels)
      THEN panels_data
      ELSE StorePanels(
             Put(panels_data, PanelId(panels[i], generated[i]),
                 [episode_id |-> episode_id, panel_order |-> i - 1,
                  image_url |-> panels[i].image_url]),
             episode_id, panels, generated, i + 1)

\* the panel lists a client can send
PanelLists ==
    UNION {[1..n -> [id : ClientPanelIds \cup {NoId}, image_url : Images]] :
             n \in 0..MaxPanels}

\* what gen_id returns in the turns of the loop that call it (NoId in the
\* others): ids that are in use nowhere
GeneratedIds(panels_data, panels) ==
    {g \in [1..Len(panels) -> (PanelIds \ ClientPanelIds) \cup {NoId}] :
       \A i \in 1..Len(panels) :
         /\ (g[i] = NoId) <=> (panels[i].id # NoId)
         /\ g[i] \notin DOMAIN panels_data
         /\ \A j \in 1..Len(panels) : (i # j /\ g[i] # NoId) => g[i] # g[j]}

\* ------------------------------------------------------------------ Init
Init ==
    /\ free_mode \in BOOLEAN
    /\ credits = EmptyDict
    /\ transactions = EmptyDict
    /\ now = 0
    /\ pc = [w \in Workers |-> "idle"]
    /\ req = [w \in Workers |-> NoReq]
    /\ frame = [w \in Workers |-> NoFrame]
    /\ resp = [w \in Workers |-> NoResp]
    /\ pre = [w \in Workers |-> NoPre]
    /\ nreq = 0
    /\ disk = DiskOk
    /\ chat = ChatUnloaded
    /\ profiles = ProfilesUnloaded
    /\ content = ContentEmpty

\* --------------------------------------------------------------- requests
Idle(w) == pc[w] = "idle"
AllIdle == \A w \in Workers : Idle(w)

Begin(w, r, first) ==
    /\ Idle(w)
    /\ nreq < MaxReq
    /\ nreq' = nreq + 1
    /\ pc' = [pc EXCEPT ![w] = first]
    /\ req' = [req EXCEPT ![w] = r]
    /\ pre' = [pre EXCEPT ![w] = [credits |-> credits, transactions |-> transactions]]
    /\ UNCHANGED <<free_mode, credits, transactions, now, frame, resp, disk, chat, profiles, content>>

\* POST /init
BeginInit(w, u) == Begin(w, [amount |-> 0, op |-> "init", uid |-> u], "init_load")

\* GET /balance/{uid}
BeginBalance(w, u) == Begin(w, [amount |-> 0, op |-> "balance", uid |-> u], "bal_load")

\* POST /use
BeginUse(w, u, a) == Begin(w, [amount |-> a, op |-> "use", uid |-> u], "use_load")

\* GET /history/{uid}
BeginHistory(w, u) == Begin(w, [amount |-> 0, op |-> "history", uid |-> u], "hist_load")

\* the handler returned (or raised): the response goes out
Finish(w, r) ==
    /\ pc' = [pc EXCEPT ![w] = "done"]
    /\ resp' = [resp EXCEPT ![w] = r]
    /\ frame' = [frame EXCEPT ![w] = NoFrame]

\* where init_user_credits returns to, by the handler that called it
InitReturn(w, kind, balance) ==
    CASE req[w].op = "init" -> Finish(w, Ok(kind, balance))
      [] req[w].op = "balance" -> Finish(w, Ok("balance", FREE_CREDITS_PER_USER))
      [] req[w].op = "use" ->
            /\ pc' = [pc EXCEPT ![w] = "use_reload"]
            /\ frame' = [frame EXCEPT ![w] = NoFrame]
            /\ UNCHANGED resp

\* ------------------------------------------------------- init_user_credits
\* credits = load_credits(); if req.uid in credits: return ...; credits[uid] = {...}
InitLoad(w) ==
    /\ pc[w] = "init_load"
    /\ LET c == load_credits
           uid == req[w].uid
       IN IF AlreadyInitialized(c, uid)
          THEN InitReturn(w, "already", c[uid].balance)
          ELSE /\ frame' = [frame EXCEPT ![w].credits = Put(c, uid, NewAccount(now))]
               /\ pc' = [pc EXCEPT ![w] = "init_save"]
               /\ UNCHANGED resp
    /\ UNCHANGED <<free_mode, credits, transactions, now, req, pre, nreq, disk, chat, profiles, content>>

\* save_credits(credits); then the call of add_transaction
InitSave(w) ==
    /\ pc[w] = "init_save"
    /\ CanSave
    /\ credits' = frame[w].credits
    /\ frame' = [frame EXCEPT ![w].tx = GrantTx, ![w].after = "init_ret"]
    /\ pc' = [pc EXCEPT ![w] = "tx_load"]
    /\ UNCHANGED <<free_mode, transactions, now, req, resp, pre, nreq, disk, chat, profiles, content>>

\* ----------------------------------------------------------- add_transaction
\* transactions = load_transactions(); transactions[uid].append({...})
TxLoad(w) ==
    /\ pc[w] = "tx_load"
    /\ LET t == load_transactions
           uid == req[w].uid
           old == IF uid \in DOMAIN t THEN t[uid] ELSE <<>>
           rec == [frame[w].tx EXCEPT !.id = now, !.created_at = now]
       IN frame' = [frame EXCEPT ![w].transactions = Put(t, uid, AppendTx(old, rec))]
    /\ pc' = [pc EXCEPT ![w] = "tx_save"]
    /\ UNCHANGED <<free_mode, credits, transactions, now, req, resp, pre, nreq, disk, chat, profiles, content>>

\* save_transactions(transactions); add_transaction returns to its caller
TxSave(w) ==
    /\ pc[w] = "tx_save"
    /\ CanSave
    /\ transactions' = frame[w].transactions
    /\ IF frame[w].after = "init_ret"
       THEN InitReturn(w, "welcome", FREE_CREDITS_PER_USER)
       ELSE Finish(w, frame[w].result)
    /\ UNCHANGED <<free_mode, credits, now, req, pre, nreq, disk, chat, profiles, content>>

\* ------------------------------------------------------------ get_user_balance
\* balance = get_balance(uid); if FREE_LAUNCH_MODE and balance == 0: init
BalLoad(w) ==
    /\ pc[w] = "bal_load"
    /\ LET balance == get_balance(load_credits, req[w].uid)
       IN IF NeedsAutoInit(free_mode, balance)
          THEN /\ pc' = [pc EXCEPT ![w] = "init_load"]
               /\ UNCHANGED <<frame, resp>>
          ELSE Finish(w, Ok("balance", balance))
    /\ UNCHANGED <<free_mode, credits, transactions, now, req, pre, nreq, disk, chat, profiles, content>>

\* ------------------------------------------------------------------ use_credits
\* the body of use_credits from current_balance = credits[uid]["balance"] on
UseDecide(w, c) ==
    LET uid == req[w].uid
        amount == req[w].amount
        current_balance == c[uid].balance
        updated == [c EXCEPT ![uid] = Deduct(@, amount)]
        new_balance == updated[uid].balance
    IN IF free_mode
       THEN /\ frame' = [frame EXCEPT ![w] =
                   [NoFrame EXCEPT !.current_balance = current_balance,
                                   !.tx = FreeUsageTx(amount, current_balance),
                                   !.after = "use_ret",
                                   !.result = Ok("free", current_balance)]]
            /\ pc' = [pc EXCEPT ![w] = "tx_load"]
            /\ UNCHANGED resp
       ELSE IF Insufficient(current_balance, amount)
            THEN Finish(w, [NoResp EXCEPT !.status = 402, !.kind = "insufficient",
                                          !.have = current_balance, !.need = amount])
            ELSE /\ frame' = [frame EXCEPT ![w] =
                        [NoFrame EXCEPT !.current_balance = current_balance,
                                        !.credits = updated,
                                        !.tx = PaidUsageTx(amount, new_balance),
                                        !.after = "use_ret",
                                        !.result = Ok("used", new_balance)]]
                 /\ pc' = [pc EXCEPT ![w] = "use_save"]
                 /\ UNCHANGED resp

\* credits = load_credits(); if req.uid not in credits: await init_user_credits
UseLoad(w) ==
    /\ pc[w] = "use_load"
    /\ LET c == load_credits
       IN IF req[w].uid \notin DOMAIN c
          THEN /\ pc' = [pc EXCEPT ![w] = "init_load"]
               /\ UNCHANGED <<frame, resp>>
          ELSE UseDecide(w, c)
    /\ UNCHANGED <<free_mode, credits, transactions, now, req, pre, nreq, disk, chat, profiles, content>>

\* credits = load_credits() after the auto-init; credits[req.uid] raises
\* KeyError (HTTP 500) when the account is not in the file
UseReload(w) ==
    /\ pc[w] = "use_reload"
    /\ LET c == load_credits
       IN IF req[w].uid \notin DOMAIN c
          THEN Finish(w, [NoResp EXCEPT !.status = 500, !.kind = "keyerror"])
          ELSE UseDecide(w, c)
    /\ UNCHANGED <<free_mode, credits, transactions, now, req, pre, nreq, disk, chat, profiles, content>>

\* save_credits(credits) of the paid branch; then the call of add_transaction
UseSave(w) ==
    /\ pc[w] = "use_save"
    /\ CanSave
    /\ credits' = frame[w].credits
    /\ pc' = [pc EXCEPT ![w] = "tx_load"]
    /\ UNCHANGED <<free_mode, transactions, now, req, frame, resp, pre, nreq, disk, chat, profiles, content>>

\* ------------------------------------------------------ get_transaction_history
\* transactions = load_transactions(); the user's list is sorted and returned
\* (the sorted list is a local: nothing is saved)
HistLoad(w) ==
    /\ pc[w] = "hist_load"
    /\ LET t == load_transactions
           uid == req[w].uid
           user_transactions == IF uid \in DOMAIN t THEN t[uid] ELSE <<>>
       IN Finish(w, [Ok("history", 0) EXCEPT
                        !.transactions = SortNewestFirst(user_transactions)])
    /\ UNCHANGED <<free_mode, credits, transactions, now, req, pre, nreq, disk, chat, profiles, content>>

\* ------------------------------------------------------------- no credit route
\* a request to credit an account (amount, type "purchase"): the router has
\* the routes /packages, /balance, /init, /use, /history and /status only
BeginCredit(w, u, a) == Begin(w, [amount |-> a, op |-> "credit", uid |-> u], "route")

\* no route matches: 404 Not Found, no handler runs
RouteMiss(w) ==
    /\ pc[w] = "route"
    /\ Finish(w, [NoResp EXCEPT !.status = 404, !.kind = "not_found"])
    /\ UNCHANGED <<free_mode, credits, transactions, now, req, pre, nreq, disk, chat, profiles, content>>

\* ------------------------------------------------------------ storage failures
\* save_credits / save_transactions raises (open fails): nothing catches it,
\* the handler ends there and the request is answered 500
SaveFails(w) ==
    /\ pc[w] \in {"init_save", "use_save", "tx_save"}
    /\ ~CanSave
    /\ Finish(w, [NoResp EXCEPT !.status = 500, !.kind = "storage"])
    /\ UNCHANGED <<free_mode, credits, transactions, now, req, pre, nreq, disk, chat, profiles, content>>

\* the data directory stops being readable, or stops being writable
DiskFails ==
    /\ disk.state = "ok"
    /\ disk.faults < MaxFault
    /\ \E k \in {"unreadable", "unwritable"} :
          disk' = [state |-> k, faults |-> disk.faults + 1]
    /\ UNCHANGED <<free_mode, credits, transactions, now, pc, req, frame, resp, pre, nreq, chat, profiles, content>>

\* the data directory is readable and writable again
DiskRecovers ==
    /\ disk.state # "ok"
    /\ disk' = [disk EXCEPT !.state = "ok"]
    /\ UNCHANGED <<free_mode, credits, transactions, now, pc, req, frame, resp, pre, nreq, chat, profiles, content>>

\* ------------------------------------------------------------------ the rest
\* the response has been sent; the worker takes the next request
Return(w) ==
    /\ pc[w] = "done"
    /\ pc' = [pc EXCEPT ![w] = "idle"]
    /\ req' = [req EXCEPT ![w] = NoReq]
    /\ resp' = [resp EXCEPT ![w] = NoResp]
    /\ pre' = [pre EXCEPT ![w] = NoPre]
    /\ UNCHANGED <<free_mode, credits, transactions, now, frame, nreq, disk, chat, profiles, content>>

\* the wall clock advances
Tick ==
    /\ now < MaxClock
    /\ now' = now + 1
    /\ UNCHANGED <<free_mode, credits, transactions, pc, req, frame, resp, pre, nreq, disk, chat, profiles, content>>

Step(w) ==
    \/ InitLoad(w)
    \/ InitSave(w)
    \/ TxLoad(w)
    \/ TxSave(w)
    \/ BalLoad(w)
    \/ UseLoad(w)
    \/ UseReload(w)
    \/ UseSave(w)
    \/ HistLoad(w)
    \/ Return(w)

Arrive(w, amounts) ==
    \/ \E u \in Users : BeginInit(w, u)
    \/ \E u \in Users : BeginBalance(w, u)
    \/ \E u \in Users, a \in amounts : BeginUse(w, u, a)
    \/ \E u \in Users : BeginHistory(w, u)

\* one server process: its event loop runs one handler at a time
Next ==
    \/ \E w \in EventLoop : AllIdle /\ Arrive(w, Amounts)
    \/ \E w \in Workers : Step(w)
    \/ Tick

Spec == Init /\ [][Next]_vars

\* one server process that is also sent credit requests
NextCredit ==
    \/ Next
    \/ \E w \in EventLoop, u \in Users, a \in CreditAmounts : AllIdle /\ BeginCredit(w, u, a)
    \/ \E w \in Workers : RouteMiss(w)

SpecCredit == Init /\ [][NextCredit]_vars

\* one server process whose data files fail to be read or written at times
NextFault ==
    \/ Next
    \/ \E w \in Workers : SaveFails(w)
    \/ DiskFails
    \/ DiskRecovers

SpecFault == Init /\ [][NextFault]_vars

\* two server processes on the same data files: their requests interleave
\* at the file operations
NextConc ==
    \/ \E w \in Workers : Arrive(w, ConcAmounts)
    \/ \E w \in Workers : Step(w)

SpecConc == Init /\ [][NextConc]_vars

\* ------------------------------------------------------------ chat service
\* import of api.routes.chat: the keys are read from the environment once
ReadEnv ==
    /\ chat.pc = "unloaded"
    /\ \E g \in BOOLEAN, r \in BOOLEAN :
          chat' = [ChatIdle(chat) EXCEPT !.GROQ_API_KEY = g, !.REPLICATE_API_KEY = r]
    /\ UNCHANGED <<ledger, profiles, content>>

\* POST /generate-image up to the call of call_replicate_api
generate_image ==
    /\ chat.pc = "idle"
    /\ \E prompt \in Texts, style \in Texts :
          LET c == [chat EXCEPT !.op = "generate_image", !.message = prompt,
                                !.style = style] IN
          chat' = IF ~chat.REPLICATE_API_KEY
                    THEN ChatRespond(c, 503, FALSE, "Image generation unavailable", FALSE)
                  ELSE IF ~check_content_safety(prompt)
                    THEN ChatRespond(c, 400, FALSE, "Inappropriate prompt", FALSE)
                  ELSE [c EXCEPT !.pc = "submit"]
    /\ UNCHANGED <<ledger, profiles, content>>

\* call_replicate_api: the job is submitted
Submit ==
    /\ chat.pc = "submit"
    /\ \E answer \in {"created", "rejected", "raise"} :
          LET c == [chat EXCEPT !.sent = enhanced_prompt(chat.message, chat.style)] IN
          chat' = CASE answer = "created" -> [c EXCEPT !.pc = "polling", !.job = TRUE]
                    [] answer = "rejected" -> ChatRaise(c, "Replicate API error: response.text", TRUE)
                    [] answer = "raise" -> ChatRaise(chat, "requests exception", TRUE)
    /\ UNCHANGED <<ledger, profiles, content>>

\* call_replicate_api: one turn of the loop
Poll ==
    /\ chat.pc = "polling"
    /\ chat.polls < MaxPolls
    /\ \E status \in PollAnswers, output \in {"url", "empty"} :
          LET o == PollOutcome(status)
              c == [chat EXCEPT !.polls = @ + 1, !.last = status, !.outcome = o]
          IN  chat' = CASE o = "output" -> [c EXCEPT !.pc = "output", !.output = output]
                        [] o = "failed" -> ChatRaise(c, "Generation failed: error", TRUE)
                        [] o = "raised" -> ChatRaise(c, "requests exception", TRUE)
                        [] OTHER -> c
    /\ UNCHANGED <<ledger, profiles, content>>

\* call_replicate_api: the loop is exhausted
Timeout ==
    /\ chat.pc = "polling"
    /\ chat.polls = MaxPolls
    /\ chat' = ChatRaise([chat EXCEPT !.outcome = "timeout"], "Generation timed out", FALSE)
    /\ UNCHANGED <<ledger, profiles, content>>

\* generate_image after call_replicate_api has returned
ImageResult ==
    /\ chat.pc = "output"
    /\ chat' = IF chat.output = "empty"
                  THEN ChatRaise(chat, "No image generated", FALSE)
                  ELSE ChatRespond(chat, 200, TRUE, "image_url", FALSE)
    /\ UNCHANGED <<ledger, profiles, content>>

\* generate_image: except Exception as e: raise HTTPException(500, str(e))
ImageExcept ==
    /\ chat.pc = "except"
    /\ chat' = ChatRespond(chat, 500, FALSE, chat.exc.text, chat.exc.verbatim)
    /\ UNCHANGED <<ledger, profiles, content>>

\* POST /message up to the call of chat_with_groq
chat_message ==
    /\ chat.pc = "idle"
    /\ \E message \in Texts, is_image_request \in BOOLEAN :
          LET c == [chat EXCEPT !.op = "chat_message", !.message = message,
                                !.image = is_image_request] IN
          chat' = IF ~check_content_safety(message)
                    THEN [ChatRespond(c, 200, FALSE, "inappropriate content", FALSE)
                            EXCEPT !.resp.flagged = TRUE]
                  ELSE IF is_image_request /\ ~chat.REPLICATE_API_KEY
                    THEN ChatRespond(c, 200, TRUE, "Image generation is temporarily unavailable", FALSE)
                  ELSE [c EXCEPT !.pc = "groq"]
    /\ UNCHANGED <<ledger, profiles, content>>

\* chat_with_groq: a lone str without the key, a (text, time) pair otherwise
chat_with_groq ==
    /\ chat.pc = "groq"
    /\ \E answer \in {"200", "other", "raise"} :
          chat' = [chat EXCEPT
                     !.pc = "unpack",
                     !.sent = IF chat.GROQ_API_KEY /\ answer # "raise"
                                THEN chat.message ELSE @,
                     !.ret = IF ~chat.GROQ_API_KEY
                               THEN PyStr("AI chat unavailable", GroqUnavailableLen)
                             ELSE CASE answer = "200" -> PyPair("generated")
                                    [] answer = "other" -> PyPair("AI temporarily unavailable")
                                    [] answer = "raise" -> PyPair("Something went wrong")]
    /\ UNCHANGED <<ledger, profiles, content>>

\* chat_message: ai_response, response_time = chat_with_groq(...) and the
\* return; a ValueError from the assignment is caught by nothing
Unpack ==
    /\ chat.pc = "unpack"
    /\ chat' = IF CanUnpack(chat.ret)
                  THEN ChatRespond(chat, 200, TRUE, chat.ret.text, FALSE)
                  ELSE ChatRespond(chat, 500, FALSE, "Internal Server Error", FALSE)
    /\ UNCHANGED <<ledger, profiles, content>>

\* the response is sent; the service waits for the next request
ChatReturn ==
    /\ chat.pc = "done"
    /\ chat' = ChatIdle(chat)
    /\ UNCHANGED <<ledger, profiles, content>>

NextChat ==
    \/ ReadEnv
    \/ generate_image
    \/ Submit
    \/ Poll
    \/ Timeout
    \/ ImageResult
    \/ ImageExcept
    \/ chat_message
    \/ chat_with_groq
    \/ Unpack
    \/ ChatReturn

SpecChat == Init /\ [][NextChat]_vars

\* ---------------------------------------------------------- profile service
\* import of api.routes.users: USE_DB = bool(DATABASE_URL)
UsersImport ==
    /\ profiles.pc = "unloaded"
    /\ \E db \in BOOLEAN : profiles' = [profiles EXCEPT !.pc = "ready", !.USE_DB = db]
    /\ UNCHANGED <<ledger, chat, content>>

\* POST /create against the users table
create_user_db(uid, email, username) ==
    LET users == profiles.users
        wanted == DefaultUsername(username, email)
        stored == IF UsernameTaken(users, wanted) THEN Suffixed(wanted, uid) ELSE wanted
        row == [username |-> stored, email |-> email]
    IN  IF uid \in DOMAIN users
          THEN ProfilesAnswer(users, "create", uid, username, 200)
        ELSE IF InsertRefused(users, uid, row)
          THEN ProfilesAnswer(users, "create", uid, username, 500)
        ELSE ProfilesAnswer(Put(users, uid, row), "create", uid, username, 200)

\* POST /create against users.json
create_user_json(uid, email, username) ==
    LET users == profiles.users
        row == [username |-> DefaultUsername(username, email), email |-> email]
    IN  IF uid \in DOMAIN users
          THEN ProfilesAnswer(users, "create", uid, username, 200)
          ELSE ProfilesAnswer(Put(users, uid, row), "create", uid, username, 200)

create_user ==
    /\ profiles.pc = "ready"
    /\ \E uid \in Users, email \in Emails, username \in Names \cup {NoName} :
          profiles' = IF profiles.USE_DB
                        THEN create_user_db(uid, email, username)
                        ELSE create_user_json(uid, email, username)
    /\ UNCHANGED <<ledger, chat, content>>

\* PUT /{uid} against the users table
update_user_db(uid, username) ==
    LET users == profiles.users IN
    IF username # NoName /\ UsernameTakenByOther(users, username, uid)
      THEN ProfilesAnswer(users, "update", uid, username, 400)
    ELSE IF uid \notin DOMAIN users
      THEN ProfilesAnswer(users, "update", uid, username, 404)
    ELSE ProfilesAnswer(
           IF username # NoName THEN [users EXCEPT ![uid].username = username] ELSE users,
           "update", uid, username, 200)

\* PUT /{uid} against users.json
update_user_json(uid, username) ==
    LET users == profiles.users IN
    IF uid \notin DOMAIN users
      THEN ProfilesAnswer(users, "update", uid, username, 404)
    ELSE ProfilesAnswer(
           IF username # NoName THEN [users EXCEPT ![uid].username = username] ELSE users,
           "update", uid, username, 200)

update_user ==
    /\ profiles.pc = "ready"
    /\ \E uid \in Users, username \in Names \cup {NoName} :
          profiles' = IF profiles.USE_DB
                        THEN update_user_db(uid, username)
                        ELSE update_user_json(uid, username)
    /\ UNCHANGED <<ledger, chat, content>>

NextUsers ==
    \/ UsersImport
    \/ create_user
    \/ update_user

SpecUsers == Init /\ [][NextUsers]_vars

\* ---------------------------------------------------------- content service
\* POST /create
create_series ==
    /\ \E series_id \in SeriesIds \ DOMAIN content.series :
          content' = ContentAnswer(
              [content EXCEPT !.series =
                 Put(@, series_id, [episodes |-> <<>>, view_count |-> 0])],
              "create_series", series_id, 200, <<>>)
    /\ UNCHANGED <<ledger, chat, profiles>>

\* POST /episode/create, with episode_number drawn from numbers
CreateEpisode(numbers) ==
    /\ \E series_id \in SeriesIds, episode_number \in numbers,
          ep_id \in EpisodeIds \ DOMAIN content.episodes :
          LET existing == EpisodesOf(content.episodes, series_id)
              ep_number == NextEpisodeNumber(episode_number, existing)
          IN  content' =
                IF series_id \notin DOMAIN content.series
                  THEN ContentAnswer(content, "create_episode", series_id, 404, <<>>)
                  ELSE ContentAnswer(
                         [content EXCEPT !.episodes =
                            Put(@, ep_id, [series_id |-> series_id,
                                           is_published |-> FALSE,
                                           episode_number |-> ep_number,
                                           thumbnail_url |-> ""])],
                         "create_episode", ep_id, 200, <<>>)
    /\ UNCHANGED <<ledger, chat, profiles>>

create_episode == CreateEpisode(EpisodeNumbers)

\* POST /episode/create without an episode_number
create_episode_auto == CreateEpisode({0})

\* POST /episode/{episode_id}/publish
toggle_publish_episode ==
    /\ \E episode_id \in EpisodeIds :
          content' =
            IF episode_id \notin DOMAIN content.episodes
              THEN ContentAnswer(content, "toggle_publish_episode", episode_id, 404, <<>>)
              ELSE ContentAnswer(
                     [content EXCEPT !.episodes[episode_id].is_published = ~@],
                     "toggle_publish_episode", episode_id, 200, <<>>)
    /\ UNCHANGED <<ledger, chat, profiles>>

\* GET /{series_id}: s is series[series_id] itself, so s["episodes"] = eps
\* is a store into the dict that is saved
get_series ==
    /\ \E series_id \in SeriesIds :
          /\ series_id \in DOMAIN content.series =>
                content.series[series_id].view_count < MaxViews
          /\ content' =
                IF series_id \notin DOMAIN content.series
                  THEN ContentAnswer(content, "get_series", series_id, 404, <<>>)
                  ELSE ContentAnswer(
                         [content EXCEPT
                            !.series[series_id].episodes =
                               <<PublishedOf(content.episodes, series_id)>>,
                            !.series[series_id].view_count = @ + 1],
                         "get_series", series_id, 200, <<>>)
    /\ UNCHANGED <<ledger, chat, profiles>>

\* POST /episode/{episode_id}/panels/save
save_panels ==
    /\ \E episode_id \in EpisodeIds, panels \in PanelLists :
        \E generated \in GeneratedIds(content.panels, panels) :
          content' =
                IF episode_id \notin DOMAIN content.episodes
                  THEN ContentAnswer(content, "save_panels", episode_id, 404, panels)
                  ELSE ContentAnswer(
                         [content EXCEPT
                            !.panels = StorePanels(WithoutEpisode(@, episode_id),
                                                   episode_id, panels, generated, 1),
                            !.episodes[episode_id].thumbnail_url =
                               IF panels # <<>> /\ panels[1].image_url # ""
                                 THEN panels[1].image_url ELSE @],
                         "save_panels", episode_id, 200, panels)
    /\ UNCHANGED <<ledger, chat, profiles>>

\* series and episodes, created, published and read
NextSeries ==
    \/ create_series
    \/ create_episode
    \/ toggle_publish_episode
    \/ get_series

SpecSeries == Init /\ [][NextSeries]_vars

\* episodes and their panels
NextPanels ==
    \/ create_series
    \/ create_episode_auto
    \/ save_panels

SpecPanels == Init /\ [][NextPanels]_vars

\* ------------------------------------------------------------------ claims
Done(w, op) == pc[w] = "done" /\ req[w].op = op

\* the account of the request's user was in credits.json when the request came
Had(w) == req[w].uid \in DOMAIN pre[w].credits

LogOf(t, u) == IF u \in DOMAIN t THEN t[u] ELSE <<>>

Log(u) == LogOf(transactions, u)

PreLog(w) == LogOf(pre[w].transactions, req[w].uid)

\* the balance a debit is decided against: the stored one, or the grant of the
\* auto-init
PreBalance(w) ==
    IF Had(w) THEN pre[w].credits[req[w].uid].balance ELSE FREE_CREDITS_PER_USER

PreUsed(w) == IF Had(w) THEN pre[w].credits[req[w].uid].total_used ELSE 0

\* length of the user's log before the debit proper (after the auto-init)
PreLen(w) == IF Had(w) THEN Len(PreLog(w)) ELSE 1

IsGrant(tx) ==
    /\ tx.type = "free"
    /\ tx.amount = FREE_CREDITS_PER_USER
    /\ tx.balance_after = FREE_CREDITS_PER_USER

IsUsage(tx, amount, balance_after) ==
    /\ tx.type = "usage"
    /\ tx.amount = -amount
    /\ tx.balance_after = balance_after

GrantCount(u) == Cardinality({i \in 1..Len(Log(u)) : Log(u)[i].type = "free"})

FilesUnchanged(w) ==
    /\ credits = pre[w].credits
    /\ transactions = pre[w].transactions

\* C1: in paid mode every stored account balance is >= 0, in every state
\* reached by init, balance and use requests.
C1_NoNegativeBalance ==
    ~free_mode => \A u \in DOMAIN credits : credits[u].balance >= 0

\* a paid-mode debit of the whole balance has been accepted
C1_Witness ==
    /\ ~free_mode
    /\ \E w \in Workers :
          /\ Done(w, "use")
          /\ resp[w].status = 200
          /\ req[w].amount = FREE_CREDITS_PER_USER
          /\ credits[req[w].uid].balance = 0

\* C2: in paid mode two debits of 3 by one user that overlap (both arrived
\* while the stored balance was 5) end with exactly one success and one
\* InsufficientCredits.
C2_ConcurrentDebitSafety ==
    ~free_mode =>
      \A w1, w2 \in Workers :
        ( /\ w1 # w2
          /\ Done(w1, "use") /\ Done(w2, "use")
          /\ req[w1].uid = req[w2].uid
          /\ Had(w1) /\ Had(w2)
          /\ PreBalance(w1) = 5 /\ PreBalance(w2) = 5
          /\ req[w1].amount = 3 /\ req[w2].amount = 3 )
        => {resp[w1].status, resp[w2].status} = {200, 402}

\* C3: in paid mode with one request at a time, an accepted debit leaves
\* balance = previous balance - amount, adds amount to total_used and appends
\* one usage transaction with amount = -amount and balance_after = the new
\* balance; a debit whose amount exceeds the previous balance is not accepted.
C3_PaidConservation ==
    \A w \in Workers :
      (Done(w, "use") /\ ~free_mode) =>
        LET u == req[w].uid
            a == req[w].amount
            b == PreBalance(w) - a
        IN /\ (a > PreBalance(w)) => resp[w].status = 402
           /\ (resp[w].status = 200) =>
                 /\ credits[u].balance = b
                 /\ credits[u].total_used = PreUsed(w) + a
                 /\ resp[w].balance = b
                 /\ Len(Log(u)) = PreLen(w) + 1
                 /\ Had(w) => SubSeq(Log(u), 1, PreLen(w)) = PreLog(w)
                 /\ IsUsage(Log(u)[Len(Log(u))], a, b)

\* the second debit of a sequence has been accepted: 997 - 3 = 994
C3_Witness ==
    /\ ~free_mode
    /\ \E w \in Workers :
          /\ Done(w, "use")
          /\ Had(w)
          /\ resp[w].status = 200
          /\ PreBalance(w) = 997
          /\ req[w].amount = 3
          /\ credits[req[w].uid].balance = 994

\* C4: in free mode with one request at a time, every debit succeeds, leaves
\* the account record as it was (as the auto-init made it, for a new user)
\* and appends exactly one usage transaction with amount = -amount and
\* balance_after = the unchanged balance.
C4_FreeModeInvariance ==
    \A w \in Workers :
      (Done(w, "use") /\ free_mode) =>
        LET u == req[w].uid
            a == req[w].amount
        IN /\ resp[w].status = 200
           /\ resp[w].kind = "free"
           /\ u \in DOMAIN credits
           /\ Had(w) => credits[u] = pre[w].credits[u]
           /\ credits[u].balance = PreBalance(w)
           /\ credits[u].total_used = PreUsed(w)
           /\ resp[w].balance = PreBalance(w)
           /\ Len(Log(u)) = PreLen(w) + 1
           /\ Had(w) => SubSeq(Log(u), 1, PreLen(w)) = PreLog(w)
           /\ IsUsage(Log(u)[Len(Log(u))], a, PreBalance(w))

\* a free-mode debit of 3 after an earlier debit by the same user
C4_Witness ==
    /\ free_mode
    /\ \E w \in Workers :
          /\ Done(w, "use")
          /\ Had(w)
          /\ req[w].amount = 3
          /\ Len(PreLog(w)) = 2
          /\ Len(Log(req[w].uid)) = 3
          /\ credits[req[w].uid].balance = FREE_CREDITS_PER_USER

\* C5 as claimed: a paid-mode debit whose amount exceeds the current balance
\* gets 402 with the balance and the amount, and both files are identical
\* before and after the request.
C5_RejectedDebitChangesNothing ==
    \A w \in Workers :
      (Done(w, "use") /\ ~free_mode /\ req[w].amount > PreBalance(w)) =>
        /\ resp[w].status = 402
        /\ resp[w].have = PreBalance(w)
        /\ resp[w].need = req[w].amount
        /\ FilesUnchanged(w)

\* C5 as amended: such a debit gets 402 with the balance and the amount; for
\* a user whose account exists both files are identical before and after;
\* for a user with no account the request has created the account and its
\* one free-grant transaction and changed nothing else.
C5_RejectedDebitAmended ==
    \A w \in Workers :
      (Done(w, "use") /\ ~free_mode /\ req[w].amount > PreBalance(w)) =>
        LET u == req[w].uid
        IN /\ resp[w].status = 402
           /\ resp[w].have = PreBalance(w)
           /\ resp[w].need = req[w].amount
           /\ Had(w) => FilesUnchanged(w)
           /\ ~Had(w) =>
                 /\ DOMAIN credits = DOMAIN pre[w].credits \cup {u}
                 /\ \A x \in DOMAIN pre[w].credits : credits[x] = pre[w].credits[x]
                 /\ credits[u].balance = FREE_CREDITS_PER_USER
                 /\ credits[u].total_used = 0
                 /\ credits[u].total_purchased = 0
                 /\ \A x \in Users \ {u} : Log(x) = LogOf(pre[w].transactions, x)
                 /\ Len(Log(u)) = 1
                 /\ IsGrant(Log(u)[1])

\* a debit of 1000 against a stored balance of 997 has been rejected
C5_Witness ==
    /\ ~free_mode
    /\ \E w \in Workers :
          /\ Done(w, "use")
          /\ Had(w)
          /\ PreBalance(w) = 997
          /\ req[w].amount = 1000
          /\ resp[w].status = 402
          /\ FilesUnchanged(w)

\* C6: a use request with amount <= 0 is rejected (no success response) and
\* changes neither file, in either mode.
C6_NonPositiveAmountRejected ==
    \A w \in Workers :
      (Done(w, "use") /\ req[w].amount <= 0) =>
        /\ resp[w].status # 200
        /\ FilesUnchanged(w)

\* C7: with one request at a time, an init for a user that has an account
\* reports "already initialized" with the stored balance and changes neither
\* file, and every account has exactly one free-grant transaction whenever
\* no request is in progress.
C7_IdempotentInit ==
    /\ \A w \in Workers :
         (Done(w, "init") /\ Had(w)) =>
           /\ resp[w].status = 200
           /\ resp[w].kind = "already"
           /\ resp[w].balance = pre[w].credits[req[w].uid].balance
           /\ FilesUnchanged(w)
    /\ (\A w \in Workers : pc[w] \in {"idle", "done"}) =>
         \A u \in DOMAIN credits : GrantCount(u) = 1

\* an init for a user with an account and a spent balance has been answered
C7_Witness ==
    \E w \in Workers :
      /\ Done(w, "init")
      /\ Had(w)
      /\ resp[w].kind = "already"
      /\ pre[w].credits[req[w].uid].balance = 0
      /\ GrantCount(req[w].uid) = 1

\* C8: in either mode a balance query for a user with no account succeeds,
\* returns 1000 and has created the account (balance 1000, totals 0) and one
\* free-grant transaction with amount 1000 and balance_after 1000.
C8_BalanceQueryCreatesAccount ==
    \A w \in Workers :
      (Done(w, "balance") /\ ~Had(w)) =>
        LET u == req[w].uid
        IN /\ resp[w].status = 200
           /\ resp[w].balance = FREE_CREDITS_PER_USER
           /\ u \in DOMAIN credits
           /\ credits[u].balance = FREE_CREDITS_PER_USER
           /\ credits[u].total_purchased = 0
           /\ credits[u].total_used = 0
           /\ Len(Log(u)) = 1
           /\ IsGrant(Log(u)[1])

\* C9: with one request at a time, a balance query for a user that has an
\* account returns the stored balance and changes neither file.
C9_BalanceQueryPure ==
    \A w \in Workers :
      (Done(w, "balance") /\ Had(w)) =>
        /\ resp[w].status = 200
        /\ resp[w].balance = pre[w].credits[req[w].uid].balance
        /\ FilesUnchanged(w)

\* a balance query has answered 0 for an account with a stored balance of 0
C9_Witness ==
    \E w \in Workers :
      /\ Done(w, "balance")
      /\ Had(w)
      /\ pre[w].credits[req[w].uid].balance = 0
      /\ resp[w].balance = 0

\* C10: with one request at a time, a debit for a user with no account has
\* created the account as init does and decided the debit against the grant
\* of 1000: the log is the grant followed by the usage record when the debit
\* was accepted, and the grant alone when it was rejected.
C10_DebitAutoInit ==
    \A w \in Workers :
      (Done(w, "use") /\ ~Had(w)) =>
        LET u == req[w].uid
            a == req[w].amount
            b == IF free_mode THEN FREE_CREDITS_PER_USER
                              ELSE FREE_CREDITS_PER_USER - a
        IN /\ u \in DOMAIN credits
           /\ credits[u].total_purchased = 0
           /\ Len(Log(u)) >= 1
           /\ IsGrant(Log(u)[1])
           /\ IF resp[w].status = 200
              THEN /\ credits[u].balance = b
                   /\ resp[w].balance = b
                   /\ Len(Log(u)) = 2
                   /\ IsUsage(Log(u)[2], a, b)
              ELSE /\ resp[w].status = 402
                   /\ ~free_mode
                   /\ a > FREE_CREDITS_PER_USER
                   /\ credits[u].balance = FREE_CREDITS_PER_USER
                   /\ Len(Log(u)) = 1

\* a paid-mode debit of 3 by a new user has left 997 and a log of two records
C10_Witness ==
    /\ ~free_mode
    /\ \E w \in Workers :
          /\ Done(w, "use")
          /\ ~Had(w)
          /\ req[w].amount = 3
          /\ resp[w].status = 200
          /\ credits[req[w].uid].balance = 997
          /\ Len(Log(req[w].uid)) = 2

IsPrefix(s, t) == Len(s) <= Len(t) /\ SubSeq(t, 1, Len(s)) = s

Quiet == \A w \in Workers : pc[w] \in {"idle", "done"}

\* the request created the account of its user
Created(w) == ~Had(w) /\ req[w].uid \in DOMAIN credits

\* the request is a debit that was accepted
Debited(w) == req[w].op = "use" /\ resp[w].status = 200

\* C11: with one request at a time, a finished request has added to its
\* user's log one record for the account creation if it created the account
\* and one record for the debit if it is an accepted debit, behind the
\* records that were there, and nothing to any other log; so a repeated
\* init, a rejected debit and a query of an existing account add none, and
\* a user has records if and only if the user has an account.
C11_AuditCompleteness ==
    /\ \A w \in Workers :
         (pc[w] = "done") =>
           LET u == req[w].uid
               n == (IF Created(w) THEN 1 ELSE 0) + (IF Debited(w) THEN 1 ELSE 0)
           IN /\ Len(Log(u)) = Len(PreLog(w)) + n
              /\ IsPrefix(PreLog(w), Log(u))
              /\ Created(w) => Log(u)[1].type = "free"
              /\ Debited(w) => Log(u)[Len(Log(u))].type = "usage"
              /\ \A x \in Users \ {u} : Log(x) = LogOf(pre[w].transactions, x)
    /\ Quiet => \A u \in Users : (u \in DOMAIN credits) <=> (Log(u) # <<>>)

\* a debit of an existing account was rejected and the log kept its two records
C11_Witness ==
    \E w \in Workers :
      /\ Done(w, "use")
      /\ Had(w)
      /\ resp[w].status = 402
      /\ Len(PreLog(w)) = 2
      /\ Len(Log(req[w].uid)) = 2

\* C12: with one request at a time, in every step every user's stored
\* transaction list before the step is a prefix of the list after it.
C12_AppendOnly ==
    [][\A u \in Users : IsPrefix(LogOf(transactions, u), LogOf(transactions', u))]_vars

\* a third record has been appended behind two stored ones
C12_Witness ==
    \E w \in Workers :
      /\ Done(w, "use")
      /\ Len(PreLog(w)) = 2
      /\ Len(Log(req[w].uid)) = 3
      /\ IsPrefix(PreLog(w), Log(req[w].uid))

Count(list, r) == Cardinality({i \in 1..Len(list) : list[i] = r})

\* the records of a list that were created at tick t, in the list's order
CreatedAt(list, t) == SelectSeq(list, LAMBDA r : r.created_at = t)

\* C15: with one request at a time, a history query answers with the
\* user's stored records (each as often as it is stored, none for a user
\* without records) ordered by created_at, newest first, records of one
\* created_at in their stored order (so the answer is determined by the
\* stored list), and changes neither file.
C15_HistoryNewestFirst ==
    \A w \in Workers :
      Done(w, "history") =>
        LET stored == Log(req[w].uid)
            got == resp[w].transactions
        IN /\ resp[w].status = 200
           /\ FilesUnchanged(w)
           /\ Len(got) = Len(stored)
           /\ \A i \in 1..Len(stored) : Count(got, stored[i]) = Count(stored, stored[i])
           /\ \A i, j \in 1..Len(got) :
                 i < j => got[i].created_at >= got[j].created_at
           /\ \A t \in 0..MaxClock : CreatedAt(got, t) = CreatedAt(stored, t)

\* a history of three records, the newest first and the oldest last, where
\* the stored list has the oldest first
C15_Witness ==
    \E w \in Workers :
      /\ Done(w, "history")
      /\ Len(resp[w].transactions) = 3
      /\ resp[w].transactions[1].created_at > resp[w].transactions[3].created_at
      /\ resp[w].transactions[3] = Log(req[w].uid)[1]

\* C13: every account's total_used and total_purchased are >= 0, and a
\* finished request has lowered neither.
C13_TotalsNonDecreasing ==
    /\ \A u \in DOMAIN credits :
         credits[u].total_used >= 0 /\ credits[u].total_purchased >= 0
    /\ \A w \in Workers :
         (pc[w] = "done" /\ Had(w) /\ req[w].uid \in DOMAIN credits) =>
           LET u == req[w].uid
           IN /\ credits[u].total_used >= pre[w].credits[u].total_used
              /\ credits[u].total_purchased >= pre[w].credits[u].total_purchased

\* C16: a credit request with amount > 0 succeeds, raises the user's balance
\* by amount in either mode, raises total_purchased by amount (type purchase)
\* and appends one record with amount = +amount and balance_after = the new
\* balance.
C16_CreditAddsAmount ==
    \A w \in Workers :
      (Done(w, "credit") /\ req[w].amount > 0) =>
        LET u == req[w].uid
            a == req[w].amount
        IN /\ resp[w].status = 200
           /\ u \in DOMAIN credits
           /\ credits[u].balance = PreBalance(w) + a
           /\ credits[u].total_purchased = a +
                 (IF Had(w) THEN pre[w].credits[u].total_purchased ELSE 0)
           /\ Log(u) # <<>>
           /\ Log(u)[Len(Log(u))].amount = a
           /\ Log(u)[Len(Log(u))].balance_after = PreBalance(w) + a

\* C14: a debit or an init that failed (answered 500) has left both files
\* as they were when the request arrived.
C14_AllOrNothing ==
    \A w \in Workers :
      (pc[w] = "done" /\ req[w].op \in {"use", "init"} /\ resp[w].status = 500) =>
        FilesUnchanged(w)

\* C17: whatever the storage did during a request, when the request is
\* finished every account that was stored when it arrived is still stored
\* and every user's log still starts with the records it had (a failed read
\* has not been taken for an empty store and written back).
C17_NothingLostOnStorageFailure ==
    \A w \in Workers :
      (pc[w] = "done") =>
        /\ \A u \in DOMAIN pre[w].credits : u \in DOMAIN credits
        /\ \A u \in Users : IsPrefix(LogOf(pre[w].transactions, u), Log(u))

\* the poll loop of a submitted job has ended
LoopEnded == chat.job /\ chat.pc \in {"output", "except", "done"}

\* C18 as stated: the loop polls at most 60 times and, once ended, has ended
\* in one of three outcomes: output returned, Generation failed, Generation
\* timed out.
C18_PollLoopThreeOutcomes ==
    /\ chat.polls <= MaxPolls
    /\ LoopEnded => chat.outcome \in {"output", "failed", "timeout"}

\* C18 amended: the loop polls at most 60 times; once ended it has ended in
\* exactly one of four outcomes: output returned at the first poll reporting
\* succeeded, Generation failed at the first poll reporting failed, the poll
\* request's own exception at the first poll that raises, or Generation
\* timed out after 60 polls reporting none of these; while the loop is still
\* running no poll has reported a terminal status.
C18_PollLoopAmended ==
    /\ chat.polls <= MaxPolls
    /\ LoopEnded => chat.outcome \in {"output", "failed", "raised", "timeout"}
    /\ chat.pc = "polling" =>
          chat.outcome = "none" /\ chat.last \notin {"succeeded", "failed", "raise"}
    /\ chat.outcome = "output" <=> chat.last = "succeeded"
    /\ chat.outcome = "failed" <=> chat.last = "failed"
    /\ chat.outcome = "raised" <=> chat.last = "raise"
    /\ chat.outcome = "timeout" =>
          chat.polls = MaxPolls /\ chat.last \in {"starting", "processing", "canceled"}

C18_Witness ==
    LoopEnded /\ chat.outcome = "timeout" /\ chat.polls = MaxPolls /\ chat.resp.status = 500

\* C19: a chat message that passes moderation and reaches chat_with_groq
\* while GROQ_API_KEY is not set is answered 200 with success and the
\* fallback text.
C19_FallbackWhenUnconfigured ==
    (chat.pc = "done" /\ chat.op = "chat_message" /\ chat.ret.type # "none"
       /\ ~chat.GROQ_API_KEY) =>
      /\ chat.resp.status = 200
      /\ chat.resp.success
      /\ chat.resp.text = "AI chat unavailable"

\* C20: no response of generate_image or chat_message carries the text of
\* a provider's error (or of the exception a request to it raised).
C20_NoProviderTextInResponse ==
    chat.pc = "done" => ~chat.resp.verbatim

\* the last record of a user's log
LastTx(u) == Log(u)[Len(Log(u))]

\* C21: with one request at a time, whenever no request is being served,
\* every stored account has at least one record and the balance_after of the
\* last record of its log equals the stored balance.
C21_LastSnapshotIsBalance ==
    Quiet =>
      \A u \in DOMAIN credits :
        /\ Log(u) # <<>>
        /\ LastTx(u).balance_after = credits[u].balance

C21_Witness ==
    /\ Quiet
    /\ ~free_mode
    /\ \E u \in DOMAIN credits :
          /\ Len(Log(u)) >= 2
          /\ LastTx(u).type = "usage"
          /\ credits[u].balance = FREE_CREDITS_PER_USER - 3

\* reading balance_after down the user's log replays the balance: every
\* record's snapshot is the one before it plus the record's amount, and the
\* last snapshot is the stored balance
Replays(u) ==
    /\ \A i \in 2..Len(Log(u)) :
          Log(u)[i].balance_after = Log(u)[i - 1].balance_after + Log(u)[i].amount
    /\ Log(u) # <<>> => LastTx(u).balance_after = credits[u].balance

\* C22: in paid mode, when two accepted debits of one user with an account
\* have been served at overlapping times, the user's log replays the
\* balance history and ends at the stored balance.
C22_LogOrderIsBalanceOrder ==
    ~free_mode =>
      \A w1, w2 \in Workers :
        ( /\ w1 # w2
          /\ Done(w1, "use") /\ Done(w2, "use")
          /\ req[w1].uid = req[w2].uid
          /\ Had(w1) /\ Had(w2)
          /\ resp[w1].status = 200 /\ resp[w2].status = 200 )
        => Replays(req[w1].uid)

\* the stored records, each with its user and its place in the log
Stored == {<<u, i>> : u \in Users, i \in 1..MaxReq + 1} \cap
          {p \in Users \X (1..MaxReq + 1) : p[2] <= Len(Log(p[1]))}

\* C23: no two stored transaction records, of one user or of two, carry the
\* same id.
C23_UniqueTransactionIds ==
    \A p, q \in Stored :
      p # q => Log(p[1])[p[2]].id # Log(q[1])[q[2]].id

\* C24: when the only two requests received so far were served at
\* overlapping times, for two different users, and both were answered as
\* successful inits or debits, each user's account is stored and each
\* user's log has its records: neither update is lost.
C24_NoLostUpdateAcrossUsers ==
    \A w1, w2 \in Workers :
      ( /\ w1 # w2
        /\ nreq = 2
        /\ pc[w1] = "done" /\ pc[w2] = "done"
        /\ req[w1].uid # req[w2].uid
        /\ req[w1].op \in {"init", "use"} /\ req[w2].op \in {"init", "use"}
        /\ resp[w1].status = 200 /\ resp[w2].status = 200 )
      => \A w \in {w1, w2} :
           /\ req[w].uid \in DOMAIN credits
           /\ Log(req[w].uid) # <<>>

\* C25: in both modes every stored account satisfies
\* balance + total_used - total_purchased = 1000, in every state.
C25_CreditConservation ==
    \A u \in DOMAIN credits :
      credits[u].balance + credits[u].total_used - credits[u].total_purchased
        = FREE_CREDITS_PER_USER

C25_Witness ==
    \E u \in DOMAIN credits, v \in DOMAIN credits :
      /\ ~free_mode
      /\ credits[u].total_used = 3 /\ credits[u].balance = FREE_CREDITS_PER_USER - 3
      /\ credits[v].total_used = -1

\* C26: no text handed to a provider contains a moderation keyword; a
\* flagged chat message is answered with success = false and flagged = true
\* and chat_with_groq has not been called; a flagged image prompt is
\* answered 400 and no job has been submitted.
C26_NoFlaggedTextForwarded ==
    /\ check_content_safety(chat.sent)
    /\ (chat.pc = "done" /\ ~check_content_safety(chat.message)) =>
          IF chat.op = "chat_message"
            THEN /\ chat.resp.status = 200 /\ ~chat.resp.success /\ chat.resp.flagged
                 /\ chat.ret = NoRet
            ELSE chat.resp.status = 400 /\ ~chat.job

\* C27: no two stored profiles have the same username, and an update to a
\* username that another user held is answered 400 and changes nothing.
C27_UsernamesUnique ==
    /\ \A u, v \in DOMAIN profiles.users :
          u # v => profiles.users[u].username # profiles.users[v].username
    /\ ( /\ profiles.last.op = "update"
         /\ profiles.last.username # NoName
         /\ UsernameTakenByOther(profiles.before, profiles.last.username,
                                 profiles.last.uid) )
       => profiles.last.status = 400 /\ profiles.users = profiles.before

\* C28: within one series no two stored episodes have the same
\* episode_number.
C28_EpisodeNumbersUnique ==
    \A e1, e2 \in DOMAIN content.episodes :
      ( /\ e1 # e2
        /\ content.episodes[e1].series_id = content.episodes[e2].series_id )
      => content.episodes[e1].episode_number # content.episodes[e2].episode_number

\* C29: a get_series step on a stored id (200) leaves the series file as it
\* was with that series' view_count one higher and nothing else different;
\* a get_series step on an unknown id (404) leaves the series file as it
\* was; the episodes file is as it was in both cases.
C29_ReadChangesOnlyViewCount ==
    [][content'.last.op = "get_series" =>
         /\ content'.episodes = content.episodes
         /\ IF content'.last.id \in DOMAIN content.series
              THEN /\ content'.last.status = 200
                   /\ content'.series =
                        [content.series EXCEPT ![content'.last.id].view_count = @ + 1]
              ELSE /\ content'.last.status = 404
                   /\ content'.series = content.series]_vars

\* the stored panels of an episode
PanelsOf(panels, episode_id) ==
    {p \in DOMAIN panels : panels[p].episode_id = episode_id}

\* C30: a save_panels step for a stored episode E with n panels (200)
\* leaves E with exactly n stored panels, the one with panel_order i - 1
\* carrying the i-th submitted image, and every panel that belonged to
\* another episode stored as it was; a save_panels step for an unknown
\* episode (404) leaves the panels and episodes files as they were.
C30_SavePanelsReplacesOnlyOwn ==
    [][content'.last.op = "save_panels" =>
         LET E == content'.last.id
             submitted == content'.last.panels
             own == PanelsOf(content'.panels, E)
         IN  IF E \in DOMAIN content.episodes
               THEN /\ content'.last.status = 200
                    /\ Cardinality(own) = Len(submitted)
                    /\ \A i \in 1..Len(submitted) :
                          \E p \in own :
                            /\ content'.panels[p].panel_order = i - 1
                            /\ content'.panels[p].image_url = submitted[i].image_url
                    /\ \A p \in DOMAIN content.panels :
                          content.panels[p].episode_id # E =>
                            /\ p \in DOMAIN content'.panels
                            /\ content'.panels[p] = content.panels[p]
               ELSE /\ content'.last.status = 404
                    /\ content'.panels = content.panels
                    /\ content'.episodes = content.episodes]_vars

====
